---- MODULE Spec2Model ----
(***************************************************************************)
(* Model of stock_bot.py: one run of the portfolio tracker.                *)
(*                                                                         *)
(*   main -> calculate_portfolio (one get_stock_data per holding)          *)
(*        -> format_message -> send_to_slack -> sys.exit                   *)
(*                                                                         *)
(* Prices and share counts are naturals (fixed-point units).  Closing      *)
(* prices come out of a pandas frame, so arithmetic on them is IEEE        *)
(* arithmetic on numpy.float64: a division by zero yields inf/nan and      *)
(* raises nothing.  A quotient is therefore kept as an exact fraction      *)
(* [num, den]; den = 0 stands for the inf/nan result of a zero division.   *)
(* datetime.now() in the header and the console prints are left out.       *)
(***************************************************************************)
EXTENDS Integers, Sequences, FiniteSets, TLC

\* ---- bounds -------------------------------------------------------------
NumHoldings == 2
MaxShares == 2
MaxPrice == 1

\* ---- program constants ---------------------------------------------------
\* stock.history(period='2d'): at most two rows come back
HistPeriodDays == 2

\* ---- configuration ------------------------------------------------------
\* PORTFOLIO keys in insertion order (dict iteration order)
AllSymbols == <<"AAPL", "MSFT", "VOO", "QTUM", "QQQ", "SPY", "XLU", "JAAA", "SCHD">>
Symbols == SubSeq(AllSymbols, 1, NumHoldings)
SymbolSet == {Symbols[k] : k \in 1..Len(Symbols)}
Shares == 1..MaxShares

\* os.environ.get('SLACK_WEBHOOK_URL'): unset (None), set to the empty string, or a URL
WebhookValues == {"None", "", "https://hooks.example/T000"}

\* ---- the outside world --------------------------------------------------
Prices == 0..MaxPrice
RECURSIVE SeqsOfLen(_, _)
SeqsOfLen(S, n) ==
  IF n = 0 THEN {<<>>}
  ELSE {Append(s, x) : s \in SeqsOfLen(S, n - 1), x \in S}
CloseSeqs == UNION {SeqsOfLen(Prices, n) : n \in 0..HistPeriodDays}

\* what yf.Ticker(symbol).history(period='2d') does: raises, or returns a frame of closes
NotAsked == [asked |-> FALSE, raised |-> FALSE, Close |-> <<>>]
ProviderResponses ==
  {[asked |-> TRUE, raised |-> TRUE, Close |-> <<>>]}
    \cup {[asked |-> TRUE, raised |-> FALSE, Close |-> c] : c \in CloseSeqs}

\* what requests.post does: raises, or returns a response with a status code
StatusCodes == {200, 201, 404, 500}
NoResponse == [raised |-> FALSE, status_code |-> 0]
PostOutcomes ==
  {[raised |-> TRUE, status_code |-> 0]}
    \cup {[raised |-> FALSE, status_code |-> s] : s \in StatusCodes}

\* ---- numbers ------------------------------------------------------------
\* x / y * 100 as an exact fraction; den = 0 is the inf/nan of a zero division
Quotient100(x, y) == [num |-> x * 100, den |-> y]
Zero == [num |-> 0, den |-> 1]
IsZero(q) == q.den # 0 /\ q.num = 0
DividedByZero(q) == q.den = 0

\* pandas .iloc[k] with k < 0: counted from the end
iloc(s, k) == s[Len(s) + 1 + k]

\* ---- get_stock_data -----------------------------------------------------
None == [isNone |-> TRUE]

get_stock_data_swapped(symbol, r) ==
  IF r.raised THEN None
  ELSE IF Len(r.Close) < 1 THEN None
  ELSE LET current_price == iloc(r.Close, -1)
           has_prev == Len(r.Close) >= 2
           prev_price == IF has_prev THEN iloc(r.Close, -2) ELSE 0
           change == IF has_prev THEN prev_price - current_price ELSE 0
           change_pct == IF has_prev THEN Quotient100(change, prev_price) ELSE Zero
       IN  [symbol |-> symbol, price |-> current_price,
            change |-> change, change_pct |-> change_pct]

get_stock_data_empty_is_quote(symbol, r) ==
  IF r.raised THEN None
  ELSE LET n == Len(r.Close)
           current_price == IF n >= 1 THEN iloc(r.Close, -1) ELSE 0
           has_prev == n >= 2
           prev_price == IF has_prev THEN iloc(r.Close, -2) ELSE 0
           change == IF has_prev THEN current_price - prev_price ELSE 0
           change_pct == IF has_prev THEN Quotient100(change, prev_price) ELSE Zero
       IN  [symbol |-> symbol, price |-> current_price,
            change |-> change, change_pct |-> change_pct]

get_stock_data_needs_two(symbol, r) ==
  IF r.raised THEN None
  ELSE IF Len(r.Close) < 2 THEN None
  ELSE LET current_price == iloc(r.Close, -1)
           prev_price == iloc(r.Close, -2)
           change == current_price - prev_price
           change_pct == Quotient100(change, prev_price)
       IN  [symbol |-> symbol, price |-> current_price,
            change |-> change, change_pct |-> change_pct]

get_stock_data(symbol, r) ==
  IF r.raised THEN None                      \* except Exception: return None
  ELSE IF Len(r.Close) < 1 THEN None         \* if len(hist) < 1: return None
  ELSE LET current_price == iloc(r.Close, -1)
           has_prev == Len(r.Close) >= 2
           prev_price == IF has_prev THEN iloc(r.Close, -2) ELSE 0
           change == IF has_prev THEN current_price - prev_price ELSE 0
           change_pct == IF has_prev THEN Quotient100(change, prev_price) ELSE Zero
       IN  [symbol |-> symbol, price |-> current_price,
            change |-> change, change_pct |-> change_pct]

\* ---- calculate_portfolio ------------------------------------------------
\* "if data:" -- a non-empty dict is truthy, None is not
Truthy(data) == data # None

portfolio_line(symbol, shares, data) ==
  [symbol |-> symbol, shares |-> shares, price |-> data.price,
   value |-> data.price * shares,
   change |-> data.change, change_pct |-> data.change_pct,
   daily_change |-> data.change * shares]

accumulate_overwrite(total, x) == x

\* total_value += value ; total_daily_change += daily_change
accumulate(total, x) == total + x

next_index_retry(k, data) == IF Truthy(data) THEN k + 1 ELSE k

\* the for loop moves on to the next item of PORTFOLIO whatever the fetch returned
next_index(k, data) == k + 1

total_change_pct_unguarded(tv, tdc) == Quotient100(tdc, tv - tdc)

\* line 94
total_change_pct_of(tv, tdc) ==
  IF tv > 0 THEN Quotient100(tdc, tv - tdc) ELSE Zero

\* ---- format_message -----------------------------------------------------
trend_of_nonneg_up(tdc) ==
  IF tdc >= 0 THEN "up" ELSE IF tdc < 0 THEN "down" ELSE "flat"

trend_of(tdc) ==
  IF tdc > 0 THEN "up" ELSE IF tdc < 0 THEN "down" ELSE "flat"

emoji_of(tdc) ==
  IF tdc > 0 THEN "chart_up" ELSE IF tdc < 0 THEN "chart_down" ELSE "arrow_right"

\* str.capitalize() on the three trend words
capitalize(s) ==
  CASE s = "up" -> "Up" [] s = "down" -> "Down" [] s = "flat" -> "Flat" [] OTHER -> s

section_of(stock) ==
  [change_emoji |-> IF stock.change >= 0 THEN "green" ELSE "red",
   symbol |-> stock.symbol, shares |-> stock.shares, price |-> stock.price,
   value |-> stock.value, change |-> stock.change, change_pct |-> stock.change_pct]

NoMessage ==
  [emoji |-> "", sections |-> <<>>, total_value |-> 0, total_daily_change |-> 0,
   total_change_pct |-> Zero, trend |-> ""]

format_message(pd, tv, tdc, tcp) ==
  [emoji |-> emoji_of(tdc),
   sections |-> [k \in 1..Len(pd) |-> section_of(pd[k])],
   total_value |-> tv, total_daily_change |-> tdc, total_change_pct |-> tcp,
   trend |-> capitalize(trend_of(tdc))]

\* ---- send_to_slack / main -----------------------------------------------
\* "not SLACK_WEBHOOK_URL": None and the empty string are both falsy
webhook_missing(url) == url = "None" \/ url = ""

slack_data_of(msg) ==
  [text |-> msg, username |-> "Stock Tracker Bot",
   icon_emoji |-> ":chart_with_upwards_trend:"]

delivered_any_2xx(resp) == ~resp.raised /\ resp.status_code >= 200 /\ resp.status_code < 300

\* the value send_to_slack returns after the POST
delivered(resp) == ~resp.raised /\ resp.status_code = 200

\* sys.exit(0 if success else 1)
exit_status(ok) == IF ok THEN 0 ELSE 1

VARIABLES
  SLACK_WEBHOOK_URL,   \* module global read from the environment
  PORTFOLIO,           \* symbol -> shares
  pc,                  \* position of main
  idx,                 \* position of the for loop over PORTFOLIO.items()
  hist,                \* symbol -> what the provider answered (NotAsked before)
  fetches,             \* symbol -> number of provider queries issued
  portfolio_data, total_value, total_daily_change, total_change_pct,
  trend, message,
  posts,               \* payloads handed to requests.post, in order
  response,            \* outcome of the POST
  success,             \* return value of send_to_slack
  exit_code            \* status passed to sys.exit; -1 while running

vars == <<SLACK_WEBHOOK_URL, PORTFOLIO, pc, idx, hist, fetches, portfolio_data,
          total_value, total_daily_change, total_change_pct, trend, message,
          posts, response, success, exit_code>>

config == <<SLACK_WEBHOOK_URL, PORTFOLIO>>
totals == <<portfolio_data, total_value, total_daily_change>>
delivery == <<posts, response, success, exit_code>>

Init ==
  /\ SLACK_WEBHOOK_URL \in WebhookValues
  /\ PORTFOLIO \in [SymbolSet -> Shares]
  /\ pc = "calculate"
  /\ idx = 1
  /\ hist = [s \in SymbolSet |-> NotAsked]
  /\ fetches = [s \in SymbolSet |-> 0]
  /\ portfolio_data = <<>>
  /\ total_value = 0
  /\ total_daily_change = 0
  /\ total_change_pct = Zero
  /\ trend = ""
  /\ message = NoMessage
  /\ posts = <<>>
  /\ response = NoResponse
  /\ success = FALSE
  /\ exit_code = -1

\* one iteration of the loop of calculate_portfolio, get_stock_data included
FetchHolding ==
  /\ pc = "calculate"
  /\ idx <= Len(Symbols)
  /\ \E r \in ProviderResponses :
       LET symbol == Symbols[idx]
           shares == PORTFOLIO[symbol]
           data == get_stock_data(symbol, r)
       IN  /\ hist' = [hist EXCEPT ![symbol] = r]
           /\ fetches' = [fetches EXCEPT ![symbol] = @ + 1]
           /\ IF Truthy(data)
              THEN LET line == portfolio_line(symbol, shares, data)
                   IN  /\ portfolio_data' = Append(portfolio_data, line)
                       /\ total_value' = accumulate(total_value, line.value)
                       /\ total_daily_change' =
                            accumulate(total_daily_change, line.daily_change)
              ELSE UNCHANGED totals
           /\ idx' = next_index(idx, data)
  /\ UNCHANGED <<config, pc, total_change_pct, trend, message, delivery>>

\* after the loop: total_change_pct and the return to main
FinishCalculate ==
  /\ pc = "calculate"
  /\ idx > Len(Symbols)
  /\ total_change_pct' = total_change_pct_of(total_value, total_daily_change)
  /\ pc' = "format"
  /\ UNCHANGED <<config, idx, hist, fetches, totals, trend, message, delivery>>

FormatMessage ==
  /\ pc = "format"
  /\ trend' = trend_of(total_daily_change)
  /\ message' = format_message(portfolio_data, total_value, total_daily_change,
                               total_change_pct)
  /\ pc' = "send"
  /\ UNCHANGED <<config, idx, hist, fetches, totals, total_change_pct, delivery>>

\* send_to_slack without a webhook URL: sys.exit(1) inside the function
SendNoWebhook ==
  /\ pc = "send"
  /\ webhook_missing(SLACK_WEBHOOK_URL)
  /\ exit_code' = 1
  /\ pc' = "done"
  /\ UNCHANGED <<config, idx, hist, fetches, totals, total_change_pct, trend,
                 message, posts, response, success>>

\* send_to_slack with a webhook URL: one requests.post, True/False returned
SendPost ==
  /\ pc = "send"
  /\ ~webhook_missing(SLACK_WEBHOOK_URL)
  /\ \E resp \in PostOutcomes :
       /\ posts' = Append(posts, slack_data_of(message))
       /\ response' = resp
       /\ success' = delivered(resp)
  /\ pc' = "exit"
  /\ UNCHANGED <<config, idx, hist, fetches, totals, total_change_pct, trend,
                 message, exit_code>>

\* the tail of main
MainExit ==
  /\ pc = "exit"
  /\ exit_code' = exit_status(success)
  /\ pc' = "done"
  /\ UNCHANGED <<config, idx, hist, fetches, totals, total_change_pct, trend,
                 message, posts, response, success>>

Next ==
  \/ FetchHolding
  \/ FinishCalculate
  \/ FormatMessage
  \/ SendNoWebhook
  \/ SendPost
  \/ MainExit

Spec == Init /\ [][Next]_vars

\* ---- properties ---------------------------------------------------------
RECURSIVE SumOver(_, _)
SumOver(f, S) ==
  IF S = {} THEN 0
  ELSE LET x == CHOOSE y \in S : TRUE IN f[x] + SumOver(f, S \ {x})

Fetched(s) == hist[s].asked
FetchSucceeded(s) == hist[s].asked /\ ~hist[s].raised /\ Len(hist[s].Close) >= 1
FetchFailed(s) == hist[s].asked /\ (hist[s].raised \/ Len(hist[s].Close) < 1)
LatestClose(s) == hist[s].Close[Len(hist[s].Close)]
PreviousClose(s) == hist[s].Close[Len(hist[s].Close) - 1]
LinesOf(s) == {k \in 1..Len(portfolio_data) : portfolio_data[k].symbol = s}
LineValues == [k \in 1..Len(portfolio_data) |-> portfolio_data[k].value]
LineDailyChanges == [k \in 1..Len(portfolio_data) |-> portfolio_data[k].daily_change]
Visited == {Symbols[k] : k \in 1..(idx - 1)}
AfterCalculate == pc \in {"format", "send", "exit", "done"}
AfterFormat == pc \in {"send", "exit", "done"}
PostReturned200 == Len(posts) = 1 /\ ~response.raised /\ response.status_code = 200

\* C1: with no webhook URL configured the run ends with exit code 1 and has
\* made no network call at all: no market-data fetch and no webhook POST.
C1_NoNetworkCallWithoutWebhook ==
  (pc = "done" /\ webhook_missing(SLACK_WEBHOOK_URL)) =>
     /\ exit_code = 1
     /\ \A s \in SymbolSet : fetches[s] = 0
     /\ posts = <<>>

\* C2: a terminated run has exit code 0 exactly when the webhook POST returned
\* status 200 and exit code 1 otherwise (no URL, other status, transport
\* error); what the fetches returned plays no part.
C2_ExitCodeReflectsDelivery ==
  pc = "done" => exit_code = (IF PostReturned200 THEN 0 ELSE 1)

C2_Witness ==
  /\ pc = "done"
  /\ exit_code = 0
  /\ \E s \in SymbolSet : FetchFailed(s)
  /\ \E s \in SymbolSet : FetchSucceeded(s)

\* C3: failed fetches (exception or empty history) do not abort the run: every
\* holding the loop has passed was queried, the failed ones have no portfolio
\* line and add nothing to the totals, and the run goes on to format the
\* report and hand it to the webhook.
C3_FailedFetchesAreSkipped ==
  /\ \A s \in Visited : Fetched(s)
  /\ \A s \in SymbolSet : FetchFailed(s) => LinesOf(s) = {}
  /\ \A s \in SymbolSet : FetchSucceeded(s) => Cardinality(LinesOf(s)) = 1
  /\ LET ok == {s \in SymbolSet : FetchSucceeded(s)}
     IN  /\ total_value = SumOver([s \in ok |-> LatestClose(s) * PORTFOLIO[s]], ok)
         /\ total_daily_change =
              SumOver([s \in ok |-> IF Len(hist[s].Close) >= 2
                                    THEN (LatestClose(s) - PreviousClose(s)) * PORTFOLIO[s]
                                    ELSE 0], ok)
  /\ AfterCalculate => Visited = SymbolSet
  /\ pc = "done" =>
       /\ Len(message.sections) = Len(portfolio_data)
       /\ message.trend # ""
       /\ ~webhook_missing(SLACK_WEBHOOK_URL) =>
            (Len(posts) = 1 /\ posts[1].text = message)

C3_Witness ==
  /\ pc = "done"
  /\ hist[Symbols[1]].raised
  /\ FetchSucceeded(Symbols[2])
  /\ total_value > 0
  /\ Len(posts) = 1

\* C4: whenever total value minus total daily change is <= 0, the total change
\* percent returned by calculate_portfolio is 0 and no division by zero was
\* performed to obtain it.
C4_ZeroPercentWhenBaseNotPositive ==
  (AfterCalculate /\ total_value - total_daily_change <= 0) =>
     (IsZero(total_change_pct) /\ ~DividedByZero(total_change_pct))

\* C5: after each holding is processed, and so after all of them, total value
\* is the sum of value over the portfolio lines produced so far and total
\* daily change the sum of daily change over those lines.
C5_TotalsAreSumsOfLines ==
  /\ total_value = SumOver(LineValues, DOMAIN LineValues)
  /\ total_daily_change = SumOver(LineDailyChanges, DOMAIN LineDailyChanges)
  /\ \A k \in 1..Len(portfolio_data) : FetchSucceeded(portfolio_data[k].symbol)
  /\ \A s \in SymbolSet : FetchSucceeded(s) => LinesOf(s) # {}

\* holdings {A: 2, B: 1}, A (prev 0, last 1), B (prev 1, last 1): 3 and +2
C5_Witness ==
  /\ pc = "format"
  /\ PORTFOLIO[Symbols[1]] = 2 /\ PORTFOLIO[Symbols[2]] = 1
  /\ hist[Symbols[1]].Close = <<0, 1>> /\ hist[Symbols[2]].Close = <<1, 1>>
  /\ Len(portfolio_data) = 2
  /\ total_value = 3 /\ total_daily_change = 2

\* C6: a holding whose fetch returned at least two closes has a portfolio line
\* with value = latest close * quantity and daily change = (latest close -
\* previous close) * quantity, latest and previous being the last two closes.
C6_LineFromTwoCloses ==
  \A s \in SymbolSet :
    (Fetched(s) /\ ~hist[s].raised /\ Len(hist[s].Close) >= 2) =>
       /\ LinesOf(s) # {}
       /\ \A k \in LinesOf(s) :
            /\ portfolio_data[k].shares = PORTFOLIO[s]
            /\ portfolio_data[k].price = LatestClose(s)
            /\ portfolio_data[k].value = LatestClose(s) * PORTFOLIO[s]
            /\ portfolio_data[k].change = LatestClose(s) - PreviousClose(s)
            /\ portfolio_data[k].daily_change =
                 (LatestClose(s) - PreviousClose(s)) * PORTFOLIO[s]

C6_Witness ==
  /\ AfterCalculate
  /\ \E s \in SymbolSet :
       /\ Fetched(s) /\ ~hist[s].raised /\ Len(hist[s].Close) >= 2
       /\ PORTFOLIO[s] = 2
       /\ LatestClose(s) < PreviousClose(s)
       /\ \E k \in LinesOf(s) : portfolio_data[k].daily_change < 0

\* C7: the trend label of the report is "up" iff total daily change > 0,
\* "down" iff it is < 0 and "flat" iff it is 0; the report carries that one
\* label (capitalised).
C7_TrendFollowsSign ==
  AfterFormat =>
    /\ trend \in {"up", "down", "flat"}
    /\ (trend = "up") <=> (total_daily_change > 0)
    /\ (trend = "down") <=> (total_daily_change < 0)
    /\ (trend = "flat") <=> (total_daily_change = 0)
    /\ message.trend = capitalize(trend)
    /\ message.trend \in {"Up", "Down", "Flat"}

C7_Witness ==
  /\ AfterFormat
  /\ trend = "flat"
  /\ total_value > 0
  /\ Len(portfolio_data) = Len(Symbols)

\* C8: a fetch that returns exactly one close is a success: the holding's line
\* has change 0, change percent 0, value = latest close * quantity and daily
\* change 0, so it adds to total value and nothing to total daily change.
C8_SingleCloseCountsWithZeroChange ==
  LET single == {s \in SymbolSet :
                   Fetched(s) /\ ~hist[s].raised /\ Len(hist[s].Close) = 1}
      double == {s \in SymbolSet :
                   Fetched(s) /\ ~hist[s].raised /\ Len(hist[s].Close) >= 2}
  IN  /\ \A s \in single :
           /\ Cardinality(LinesOf(s)) = 1
           /\ \A k \in LinesOf(s) :
                /\ portfolio_data[k].change = 0
                /\ IsZero(portfolio_data[k].change_pct)
                /\ portfolio_data[k].price = hist[s].Close[1]
                /\ portfolio_data[k].value = hist[s].Close[1] * PORTFOLIO[s]
                /\ portfolio_data[k].daily_change = 0
      /\ total_value - SumOver([s \in double |-> LatestClose(s) * PORTFOLIO[s]], double)
           = SumOver([s \in single |-> hist[s].Close[1] * PORTFOLIO[s]], single)
      /\ total_daily_change =
           SumOver([s \in double |-> (LatestClose(s) - PreviousClose(s)) * PORTFOLIO[s]],
                   double)

C8_Witness ==
  /\ AfterCalculate
  /\ Len(hist[Symbols[1]].Close) = 1
  /\ Len(hist[Symbols[2]].Close) = 2
  /\ hist[Symbols[1]].Close[1] > 0
  /\ total_daily_change > 0
  /\ total_value > total_daily_change

\* C9: no external call is repeated within a run: each holding is queried at
\* the provider exactly once, failed or not, and at most one webhook POST is
\* issued, whatever its outcome.
C9_NoCallRepeated ==
  /\ \A s \in SymbolSet : fetches[s] <= 1
  /\ \A s \in Visited : fetches[s] = 1
  /\ AfterCalculate => \A s \in SymbolSet : fetches[s] = 1
  /\ Len(posts) <= 1
  /\ pc = "done" => Len(posts) = (IF webhook_missing(SLACK_WEBHOOK_URL) THEN 0 ELSE 1)

C9_Witness ==
  /\ pc = "done"
  /\ \A s \in SymbolSet : FetchFailed(s) /\ fetches[s] = 1
  /\ Len(posts) = 1
  /\ response.raised

\* C10: when every fetch fails and the webhook URL is configured, the POST is
\* still issued; its report has no holding sections, total value 0, total
\* daily change 0, total change percent 0 and trend flat, and the exit code
\* is 0 if the POST returns 200.
C10_EmptyReportStillDelivered ==
  (pc = "done" /\ ~webhook_missing(SLACK_WEBHOOK_URL)
     /\ \A s \in SymbolSet : FetchFailed(s)) =>
       /\ Len(posts) = 1
       /\ posts[1].text.sections = <<>>
       /\ posts[1].text.total_value = 0
       /\ posts[1].text.total_daily_change = 0
       /\ IsZero(posts[1].text.total_change_pct)
       /\ posts[1].text.trend = "Flat"
       /\ trend = "flat"
       /\ PostReturned200 => exit_code = 0

C10_Witness ==
  /\ pc = "done"
  /\ ~webhook_missing(SLACK_WEBHOOK_URL)
  /\ \A s \in SymbolSet : FetchFailed(s)
  /\ \E s \in SymbolSet : hist[s].raised
  /\ \E s \in SymbolSet : ~hist[s].raised
  /\ PostReturned200
  /\ exit_code = 0

====
